---- MODULE Spec2Model ----
(***************************************************************************)
(* Verification model of the pytanis program-committee notebooks:          *)
(*   - the reviewer assignment of 30_selection_v1.ipynb (assign_proposals, *)
(*     find_reviewer and the cells that feed and follow them),             *)
(*   - the schedule MIP of 40_scheduling_v1.ipynb.                         *)
(***************************************************************************)
EXTENDS Integers, Sequences, FiniteSets, TLC

(***************************************************************************)
(* Bounds of the model                                                     *)
(***************************************************************************)
NumReviewers == 3   \* rows of the reviewer sheet
NumSubs == 2        \* at most this many rows in subs_df
NumTracks == 2      \* track names in use
MaxReviews == 2     \* reviews stored upstream
MaxWantsAll == 2    \* sheet rows flagged "Wants all proposals"
MaxTarget == 2      \* TARGET_REVIEWS ranges over 1..MaxTarget
MaxBuffer == 1      \* BUFFER_REVIEWS ranges over 0..MaxBuffer
MaxRuns == 2        \* runs of the notebook in a row
MaxCompleted == 1   \* reviews completed between two runs

NumVoteSubs == 2    \* proposals in the public votes file
MaxVoteRows == 3    \* rows of the public votes file
MaxVote == 3        \* public vote values range over 1..MaxVote
NumScoreUsers == 2  \* reviewers in the review table
NumScoreSubs == 2   \* proposals in the review table
MaxReviewRows == 3  \* rows of the review table
MaxScore == 2       \* review scores range over 1..MaxScore

MaxRecords == 4     \* records the upstream holds for a list endpoint
MaxPageSize == 2    \* page sizes range over 1..MaxPageSize
NumAux == 2         \* identifiers of the auxiliary entities (tracks)
MaxSoftBound == 1   \* configured upper bound of a cache; 0 is the default, no bound
MaxClears == 1      \* calls of clear per session
MaxRetries == 2     \* the configured bound of the retries ranges over 0..MaxRetries
MaxBackoff == 2     \* cap of the exponential backoff, in base units

NumTalks == 3       \* accepted talks to place
NumDays == 1        \* days of the time table
NumSessions == 1    \* sessions per day
NumSlots == 2       \* slot positions per session
NumRooms == 2       \* rooms
NumMainTracks == 1  \* main tracks other than 'Plenary'
NumSubTracks == 1   \* sub tracks other than 'Plenary'

Reviewers == 1..NumReviewers
\* codes of all proposals of the event; subs_df keeps a prefix of them (the
\* ones still in state "submitted"), the others are withdrawn, accepted, ...
Codes == 1..(NumSubs + 1)
Tracks == 1..NumTracks

VARIABLES
    \* ---- inputs of the notebook ----
    revs,             \* reviews: <<user, code>> |-> "has a score"
    track_prefs,      \* sheet column Col.track_prefs, per reviewer
    all_proposals,    \* sheet column Col.all_proposals = 'x', per reviewer
    subs_track,       \* subs_df[Col.track], one entry per row of subs_df
    target_nreviews,  \* subs_df[Col.target_nreviews] = TARGET_REVIEWS
    buffer,           \* BUFFER_REVIEWS
    \* ---- state of the run of assign_proposals ----
    pc,               \* position of the run
    curr_assignments, \* working copy: reviewers_df[Col.curr_assignments]
    n_assigned,       \* working copy: reviewers_df['Current #Assignments']
    order,            \* rows of subs_df after sort_values / reset_index
    rem_assign,       \* subs_df['Remaining Assignments'], per code
    pos,              \* position of the for loop in order (0 outside it)
    warned,           \* codes for which logging.warning was called
    assigned_log,     \* <<code, reviewer>> pairs appended by the main pass
    err,              \* payload of the RuntimeError, or NoErr
    new_assign_df,    \* the notebook's result, or NoResult
    args,             \* the two tables handed to assign_proposals, as the caller holds them
    refs,             \* the objects the names subs_df and reviewers_df are bound to
    \* ---- reruns of the notebook ----
    run,              \* number of the current run
    completed,        \* reviews completed since the last run ended
    fresh,            \* reviews completed between the last run and this one
    prev_todo,        \* per reviewer: proposals left to review after the last run
    prev_log,         \* assigned_log of the last run
    prev_result,      \* new_assign_df of the last run
    \* ---- the schedule model (40_scheduling_v1) ----
    params,           \* the pyo.Param tables of the model
    solution,         \* values of the pyo.Var tables once a solution is loaded
    schedPc,          \* "idle", "built", "loaded" or "infeasible"
    \* ---- public votes (40_scheduling_v1 and 30_selection_v1) ----
    votes_csv,        \* rows of the public votes file: [code, score]
    talk2idx,         \* scheduling: the accepted talks
    votes_df,         \* scheduling: votes_df after the cell that reads the file
    pops_dict,        \* scheduling: normalised popularity per talk
    sel_votes_df,     \* selection: votes_df with its informative columns
    scorePc,          \* position of each notebook: [sched, sel]
    \* ---- review scores (30_selection_v1) ----
    revs_df,          \* one row per review: [user, code, scored, score] and added columns
    sel_subs,         \* codes of subs_df
    avg_scores,       \* the aggregated table, per code of subs_df
    revPc,            \* "idle", "start", "debiased" or "joined"
    \* ---- the upstream client: paginated fetcher and expansion cache ----
    up_total,         \* upstream: number of records of the list endpoint
    page_size,        \* upstream: records per page
    track_of,         \* upstream: the track identifier each record references
    query,            \* the caller's query parameters
    soft_bound,       \* configuration: upper bound of the cache, 0 for none
    prepopulation,    \* configuration: set_prepopulation(enabled)
    blocking,         \* configuration: PretalxClient(blocking=...)
    next_url,         \* lazy sequence: the next page, or Null
    page_buffer,      \* lazy sequence: records of the current page not yet yielded
    count,            \* the count returned by the list call
    received,         \* what the consumer has received so far
    list_requests,    \* requests issued to the list endpoint
    detail_requests,  \* requests issued to the detail endpoint of the auxiliary kind
    bulk_requests,    \* list requests issued by bulk_prepopulate
    cache,            \* the cache of the auxiliary kind, oldest insertion first
    referenced,       \* identifiers referenced since the cache was last cleared
    clears,           \* calls of clear so far
    clientPc,         \* "idle", "start", "iter" or "drained"
    \* the paginated fetcher: one request and its retries
    endpoint,         \* "list" or "detail"
    max_retries,      \* configuration: the bound of the retries
    status_log,       \* the status codes the upstream answered with, in order
    delay,            \* the backoff before the next attempt, in base units
    outcome,          \* "pending", "ok" or the name of the failure
    fetchPc,          \* "idle", "send", "backoff" or "done"
    \* a call of quantize(x, n_bins) of the scheduling notebook
    x_num,            \* the array x: the numerators of its entries
    x_den,            \* the denominator the entries of x share
    n_bins,           \* the number of bins
    digitized,        \* np.digitize(x, bins, right=True), entry by entry
    quantPc           \* "idle", "call" or "done"

assignVars == <<revs, track_prefs, all_proposals, subs_track, target_nreviews, buffer,
                pc, curr_assignments, n_assigned, order, rem_assign, pos, warned,
                assigned_log, err, new_assign_df, args, refs, run, completed, fresh,
                prev_todo, prev_log, prev_result>>

quantVars == <<x_num, x_den, n_bins, digitized, quantPc>>
schedVars == <<params, solution, schedPc, quantVars>>
scoreVars == <<votes_csv, talk2idx, votes_df, pops_dict, sel_votes_df, scorePc,
               revs_df, sel_subs, avg_scores, revPc>>
clientVars == <<up_total, page_size, track_of, query, soft_bound, prepopulation, blocking,
                next_url, page_buffer, count, received, list_requests, detail_requests,
                bulk_requests, cache, referenced, clears, clientPc,
                endpoint, max_retries, status_log, delay, outcome, fetchPc>>
vars == <<assignVars, schedVars, scoreVars, clientVars>>

NoErr == [kind |-> "none"]
NoResult == <<>>

(***************************************************************************)
(* Helpers                                                                 *)
(***************************************************************************)
Max(a, b) == IF a >= b THEN a ELSE b

RECURSIVE SumOver(_, _)
SumOver(f, S) ==
    IF S = {} THEN 0
    ELSE LET x == CHOOSE y \in S : TRUE IN f[x] + SumOver(f, S \ {x})

Contains(seq, c) == \E i \in DOMAIN seq : seq[i] = c
Count(seq, c) == Cardinality({i \in DOMAIN seq : seq[i] = c})

\* the elements of a set of integers as an ascending list
RECURSIVE AscList(_)
AscList(S) ==
    IF S = {} THEN <<>>
    ELSE LET m == CHOOSE x \in S : \A y \in S : x <= y IN <<m>> \o AscList(S \ {m})

\* subsets of S with at most k elements
RECURSIVE KSubsets(_, _)
KSubsets(S, k) ==
    IF k = 0 THEN {{}}
    ELSE LET P == KSubsets(S, k - 1) IN P \cup {T \cup {x} : T \in P, x \in S}

(***************************************************************************)
(* Cells before the call: tables derived from the inputs                   *)
(***************************************************************************)
\* rows of subs_df; the code of row i is i
Subs == DOMAIN subs_track

\* revs_vcounts: reviews that actually have scores, per submission
nreviews(s) == Cardinality({p \in DOMAIN revs : p[2] = s /\ revs[p]})

\* subs_df[Col.rem_nreviews]
rem_nreviews(s) == Max(0, target_nreviews - nreviews(s))

\* all_sub_codes = list(subs_df[Col.submission])
all_sub_codes == [i \in Subs |-> i]

\* reviewers_df['review']: every proposal the user interacted with
review(r) == AscList({c \in Codes : <<r, c>> \in DOMAIN revs})

\* assign_all_emails
assign_all_emails == {r \in Reviewers : all_proposals[r]}

\* faulty variant: the wants-all rows are handed to assign_proposals too
Pool_everyone == Reviewers
\* reviewers_df.loc[reviewers_df[Col.all_proposals] != 'x'], the pool handed
\* to assign_proposals
Pool == {r \in Reviewers : ~all_proposals[r]}

(***************************************************************************)
(* assign_proposals                                                        *)
(***************************************************************************)
\* the track sets of the sanity check, for the reviewer rows handed in
reviewer_prefs(pool) == UNION {track_prefs[r] : r \in pool}
sub_prefs == {subs_track[s] : s \in Subs}

\* faulty variant: only the tracks of the submissions have to be covered
TracksAlign_oneway(pool) == sub_prefs \subseteq reviewer_prefs(pool)
\* if reviewer_prefs != sub_prefs: raise RuntimeError(msg)
TracksAlign(pool) == reviewer_prefs(pool) = sub_prefs

\* subs_df['Current #Assignments']: value_counts over the exploded lists
n_assigned_sub(pool, s) == SumOver([r \in pool |-> Count(review(r), s)], pool)

\* subs_df.sort_values(Col.rem_nreviews, ascending=False): nargsort reverses,
\* argsorts and reverses again, which keeps rows with equal keys in input
\* order. Other tie orders are the same run on reordered input rows.
SortedRows ==
    LET before(t, s) == rem_nreviews(t) > rem_nreviews(s)
                        \/ (rem_nreviews(t) = rem_nreviews(s) /\ t < s)
        rank(s) == Cardinality({t \in Subs : before(t, s)}) + 1
    IN [i \in Subs |-> CHOOSE s \in Subs : rank(s) = i]

\* faulty variant: the lists that already hold the proposal are not counted
InitRemAssign_nosubtract(pool, s) ==
    IF rem_nreviews(s) = 0 THEN rem_nreviews(s)
    ELSE rem_nreviews(s) + buffer
\* faulty variant: the counter without the .where() guard
InitRemAssign_nowhere(pool, s) ==
    rem_nreviews(s) + buffer - n_assigned_sub(pool, s)
\* subs_df[col_rem_assign] = rem.where(rem == 0, rem + buffer - n_assigned)
InitRemAssign(pool, s) ==
    IF rem_nreviews(s) = 0 THEN rem_nreviews(s)
    ELSE rem_nreviews(s) + buffer - n_assigned_sub(pool, s)

is_preference(pool, s) == {r \in pool : subs_track[s] \in track_prefs[r]}
is_already_assigned(pool, assign, s) == {r \in pool : Contains(assign[r], s)}

\* faulty variant: ties are broken differently from the second run on
idxmin_byrun(nass, S) ==
    CHOOSE r \in S : \A q \in S :
        nass[r] < nass[q] \/ (nass[r] = nass[q] /\ IF run > 1 THEN r >= q ELSE r <= q)
\* faulty variant: the last occurrence of the minimum
idxmin_last(nass, S) ==
    CHOOSE r \in S : \A q \in S :
        nass[r] < nass[q] \/ (nass[r] = nass[q] /\ r >= q)
\* faulty variant: the first row of the selection, whatever its load
idxmin_first(nass, S) ==
    CHOOSE r \in S : \A q \in S : r <= q
\* Series.idxmin(): label of the first occurrence of the minimum
idxmin(nass, S) ==
    CHOOSE r \in S : \A q \in S :
        nass[r] < nass[q] \/ (nass[r] = nass[q] /\ r <= q)

\* faulty variant: the mask without "& ~is_already_assigned"
find_reviewer_repeat(pool, assign, nass, s) ==
    LET mask == is_preference(pool, s)
    IN IF mask = {}
       THEN [warning |-> TRUE, raises |-> FALSE, idx |-> idxmin(nass, pool)]
       ELSE [warning |-> FALSE, raises |-> FALSE, idx |-> idxmin(nass, mask)]
\* find_reviewer: idxmin() of an empty selection raises ValueError
find_reviewer(pool, assign, nass, s) ==
    LET mask == is_preference(pool, s) \ is_already_assigned(pool, assign, s)
        free == pool \ is_already_assigned(pool, assign, s)
    IN IF mask = {}
       THEN [warning |-> TRUE, raises |-> free = {},
             idx |-> IF free = {} THEN 0 ELSE idxmin(nass, free)]
       ELSE [warning |-> FALSE, raises |-> FALSE, idx |-> idxmin(nass, mask)]

\* the working tables once the sanity check has passed
Prepared(pool) ==
    [assign |-> [r \in pool |-> review(r)],
     nass   |-> [r \in pool |-> Len(review(r))],
     rem    |-> [s \in Subs |-> InitRemAssign(pool, s)],
     warned |-> {},
     log    |-> <<>>,
     raised |-> FALSE]

\* while subs_df[col_rem_assign].sum() > 0
LoopCondition(rem) == SumOver(rem, DOMAIN rem) > 0

\* the body of the for loop for the row of submission s
RowBody(pool, st, s) ==
    IF ~(st.rem[s] > 0) THEN st
    ELSE LET found == find_reviewer(pool, st.assign, st.nass, s)
             w == IF found.warning THEN st.warned \cup {s} ELSE st.warned
         IN IF found.raises
            THEN [st EXCEPT !.warned = w, !.raised = TRUE]
            ELSE [assign |-> [st.assign EXCEPT ![found.idx] = Append(@, s)],
                  nass   |-> [st.nass EXCEPT ![found.idx] = @ + 1],
                  rem    |-> [st.rem EXCEPT ![s] = @ - 1],
                  warned |-> w,
                  log    |-> Append(st.log, <<s, found.idx>>),
                  raised |-> FALSE]

\* the whole main pass as a function of the reviewer rows handed in
RECURSIVE ForLoop(_, _, _)
ForLoop(pool, st, i) ==
    IF st.raised \/ i > Len(SortedRows) THEN st
    ELSE ForLoop(pool, RowBody(pool, st, SortedRows[i]), i + 1)

RECURSIVE WhileLoop(_, _)
WhileLoop(pool, st) ==
    IF st.raised \/ ~LoopCondition(st.rem) THEN st
    ELSE WhileLoop(pool, ForLoop(pool, st, 1))

assign_proposals(pool) ==
    IF TracksAlign(pool) THEN WhileLoop(pool, Prepared(pool))
    ELSE [raised |-> TRUE]

\* the arguments of the call in line 1022: subs_df and the rows of
\* reviewers_df that are not flagged, whose lists are the 'review' lists
CallerTables ==
    [reviewers_curr |-> [r \in Pool |-> review(r)],
     reviewers_cols |-> {},
     subs_rows |-> all_sub_codes,
     subs_cols |-> {}]
\* on entry both parameter names are bound to the caller's objects
ArgRefs == [reviewers |-> "arg", subs |-> "arg"]

\* faulty variant: no copy, the name stays bound to the same object
copy_df_same(ref) == ref
\* pickle.loads(pickle.dumps(df)): a new object, its lists new objects too
copy_df(ref) == "copy"

\* a write to the reviewer table bound to ref (column assignment, append to
\* a list, += 1) as the caller sees it
WriteReviewers(ref, curr, cols) ==
    IF ref = "arg"
    THEN [args EXCEPT !.reviewers_curr = curr, !.reviewers_cols = @ \cup cols]
    ELSE args

inputsUnchanged ==
    UNCHANGED <<revs, track_prefs, all_proposals, subs_track, target_nreviews, buffer,
                run, completed, fresh, prev_todo, prev_log, prev_result, schedVars,
                scoreVars, clientVars>>

\* the sanity check fails: raise RuntimeError(msg)
RaiseTrackMismatch ==
    /\ pc = "call"
    /\ ~TracksAlign(Pool)
    /\ pc' = "raised"
    /\ err' = [kind |-> "RuntimeError",
               only_reviewers |-> reviewer_prefs(Pool) \ sub_prefs,
               only_submissions |-> sub_prefs \ reviewer_prefs(Pool)]
    /\ refs' = [reviewers |-> copy_df(refs.reviewers), subs |-> copy_df(refs.subs)]
    /\ args' = WriteReviewers(copy_df(refs.reviewers), [r \in Pool |-> review(r)], {})
    /\ UNCHANGED <<curr_assignments, n_assigned, order, rem_assign, pos, warned,
                   assigned_log, new_assign_df>>
    /\ inputsUnchanged

\* copies, sanity check passed, sort, counters
Prepare ==
    /\ pc = "call"
    /\ TracksAlign(Pool)
    /\ curr_assignments' = Prepared(Pool).assign
    /\ n_assigned' = Prepared(Pool).nass
    /\ rem_assign' = Prepared(Pool).rem
    /\ order' = SortedRows
    /\ pc' = "while"
    /\ refs' = [reviewers |-> copy_df(refs.reviewers), subs |-> "sorted"]
    /\ args' = WriteReviewers(copy_df(refs.reviewers), Prepared(Pool).assign,
                              {"Current #Assignments"})
    /\ UNCHANGED <<pos, warned, assigned_log, err, new_assign_df>>
    /\ inputsUnchanged

WhileEnter ==
    /\ pc = "while"
    /\ LoopCondition(rem_assign)
    /\ pc' = "for"
    /\ pos' = 1
    /\ UNCHANGED <<curr_assignments, n_assigned, order, rem_assign, warned,
                   assigned_log, err, new_assign_df, args, refs>>
    /\ inputsUnchanged

\* the loop ends: return reviewers_df
WhileExit ==
    /\ pc = "while"
    /\ ~LoopCondition(rem_assign)
    /\ pc' = "returned"
    /\ UNCHANGED <<curr_assignments, n_assigned, order, rem_assign, pos, warned,
                   assigned_log, err, new_assign_df, args, refs>>
    /\ inputsUnchanged

\* next row of the for loop, or back to the while test after the last row
Advance ==
    IF pos < Len(order)
    THEN pos' = pos + 1 /\ pc' = "for"
    ELSE pos' = 0 /\ pc' = "while"

\* the working tables of the run as one record
Working ==
    [assign |-> curr_assignments, nass |-> n_assigned, rem |-> rem_assign,
     warned |-> warned, log |-> assigned_log, raised |-> FALSE]

\* a row whose counter is not positive is passed over
SkipRow ==
    /\ pc = "for"
    /\ ~(rem_assign[order[pos]] > 0)
    /\ Advance
    /\ UNCHANGED <<curr_assignments, n_assigned, order, rem_assign, warned,
                   assigned_log, err, new_assign_df, args, refs>>
    /\ inputsUnchanged

\* the body of "if row[col_rem_assign] > 0" with a reviewer found
AssignRow ==
    /\ pc = "for"
    /\ rem_assign[order[pos]] > 0
    /\ LET st == RowBody(Pool, Working, order[pos])
       IN /\ ~st.raised
          /\ curr_assignments' = st.assign
          /\ n_assigned' = st.nass
          /\ rem_assign' = st.rem
          /\ warned' = st.warned
          /\ assigned_log' = st.log
          /\ args' = WriteReviewers(refs.reviewers, st.assign, {})
    /\ Advance
    /\ UNCHANGED <<order, err, new_assign_df, refs>>
    /\ inputsUnchanged

\* find_reviewer warns and then idxmin() raises ValueError: nobody is left
RaiseNoReviewer ==
    /\ pc = "for"
    /\ rem_assign[order[pos]] > 0
    /\ LET st == RowBody(Pool, Working, order[pos])
       IN /\ st.raised
          /\ warned' = st.warned
    /\ err' = [kind |-> "ValueError", sub |-> order[pos]]
    /\ pc' = "raised"
    /\ UNCHANGED <<curr_assignments, n_assigned, order, rem_assign, pos,
                   assigned_log, new_assign_df, args, refs>>
    /\ inputsUnchanged

\* rows appended for the people that want all proposals
all_subs_df == [r \in assign_all_emails |-> all_sub_codes]

\* new_assign_df = pd.concat([new_assign_df, all_subs_df])
ConcatWantsAll ==
    /\ pc = "returned"
    /\ new_assign_df' =
           [r \in Pool \cup assign_all_emails |->
               IF r \in Pool THEN curr_assignments[r] ELSE all_subs_df[r]]
    /\ pc' = "done"
    /\ UNCHANGED <<curr_assignments, n_assigned, order, rem_assign, pos, warned,
                   assigned_log, err, args, refs>>
    /\ inputsUnchanged

(***************************************************************************)
(* Inputs                                                                  *)
(***************************************************************************)
\* the track of row 1 is track 1: track names are interchangeable
SubTrackInputs ==
    {<<>>} \cup UNION {{t \in [1..n -> Tracks] : t[1] = 1} : n \in 1..NumSubs}

WantsAllInputs ==
    {f \in [Reviewers -> BOOLEAN] : Cardinality({r \in Reviewers : f[r]}) <= MaxWantsAll}

\* Col.track_prefs is x.split(', '), so a list is never empty. The list of
\* a wants-all reviewer is never read by the assignment.
TrackPrefInputs(wantsAll) ==
    {f \in [Reviewers -> (SUBSET Tracks) \ {{}}] : \A r \in Reviewers : wantsAll[r] => f[r] = {1}}

\* one review per user and proposal; the score of a review matters only for
\* a proposal of subs_df
ReviewInputs(rows) ==
    UNION {{f \in [S -> BOOLEAN] : \A p \in S : p[2] \notin rows => f[p]} :
              S \in KSubsets(Reviewers \X Codes, MaxReviews)}

AssignInputs ==
    /\ subs_track \in SubTrackInputs
    /\ all_proposals \in WantsAllInputs
    /\ track_prefs \in TrackPrefInputs(all_proposals)
    /\ revs \in ReviewInputs(DOMAIN subs_track)
    /\ target_nreviews \in 1..MaxTarget
    /\ buffer \in 0..MaxBuffer

AssignIdle ==
    /\ curr_assignments = <<>>
    /\ n_assigned = <<>>
    /\ order = <<>>
    /\ rem_assign = <<>>
    /\ pos = 0
    /\ warned = {}
    /\ assigned_log = <<>>
    /\ err = NoErr
    /\ new_assign_df = NoResult
    /\ args = CallerTables
    /\ refs = ArgRefs
    /\ run = 1
    /\ completed = 0
    /\ fresh = 0
    /\ prev_todo = <<>>
    /\ prev_log = <<>>
    /\ prev_result = NoResult

NextAssign ==
    \/ RaiseTrackMismatch
    \/ Prepare
    \/ WhileEnter
    \/ WhileExit
    \/ SkipRow
    \/ AssignRow
    \/ RaiseNoReviewer
    \/ ConcatWantsAll

(***************************************************************************)
(* Reruns: "whenever this script is rerun"; the notebook keeps no state,   *)
(* every run starts from the reviews fetched anew.                         *)
(***************************************************************************)
\* the proposals of a list that its reviewer has not scored yet
todo(r, list) == {i \in DOMAIN list : ~(<<r, list[i]>> \in DOMAIN revs /\ revs[<<r, list[i]>>])}

\* between two runs a reviewer scores a proposal of his or her list
CompleteReview ==
    /\ pc = "done"
    /\ run < MaxRuns
    /\ completed < MaxCompleted
    /\ \E r \in DOMAIN new_assign_df : \E i \in todo(r, new_assign_df[r]) :
          LET p == <<r, new_assign_df[r][i]>>
          IN revs' = [q \in DOMAIN revs \cup {p} |-> IF q = p THEN TRUE ELSE revs[q]]
    /\ completed' = completed + 1
    /\ prev_todo' = IF completed = 0
                    THEN [r \in DOMAIN new_assign_df |->
                             Cardinality(todo(r, new_assign_df[r]))]
                    ELSE prev_todo
    /\ UNCHANGED <<track_prefs, all_proposals, subs_track, target_nreviews, buffer,
                   pc, curr_assignments, n_assigned, order, rem_assign, pos, warned,
                   assigned_log, err, new_assign_df, args, refs, run, fresh, prev_log,
                   prev_result, schedVars, scoreVars, clientVars>>

\* the notebook is run again: reviews are fetched anew, nothing else is kept
Rerun ==
    /\ pc = "done"
    /\ run < MaxRuns
    /\ run' = run + 1
    /\ fresh' = completed
    /\ completed' = 0
    /\ prev_todo' = IF completed = 0
                    THEN [r \in DOMAIN new_assign_df |->
                             Cardinality(todo(r, new_assign_df[r]))]
                    ELSE prev_todo
    /\ prev_log' = assigned_log
    /\ prev_result' = new_assign_df
    /\ pc' = "call"
    /\ curr_assignments' = <<>>
    /\ n_assigned' = <<>>
    /\ order' = <<>>
    /\ rem_assign' = <<>>
    /\ pos' = 0
    /\ warned' = {}
    /\ assigned_log' = <<>>
    /\ err' = NoErr
    /\ new_assign_df' = NoResult
    /\ args' = CallerTables
    /\ refs' = ArgRefs
    /\ UNCHANGED <<revs, track_prefs, all_proposals, subs_track, target_nreviews, buffer,
                   schedVars, scoreVars, clientVars>>

NextRerun ==
    \/ NextAssign
    \/ CompleteReview
    \/ Rerun

(***************************************************************************)
(* Public votes: the vote score in 40_scheduling_v1 and 30_selection_v1    *)
(***************************************************************************)
VoteCodes == 1..NumVoteSubs
\* a float is held as the fraction <<num, den>>; 0/0 stands for nan
NaN == <<0, 0>>

\* the rows of a table with the given code, and the sum of their scores
RowsOf(df, c) == {i \in DOMAIN df : df[i].code = c}
vote_score_sum(df, c) == SumOver([i \in DOMAIN df |-> df[i].score], RowsOf(df, c))

\* faulty variant: a score of 2 stays 2
move_2_to_1_not(score) == score
\* votes_df.loc[votes_df[Col.vote_score] == 2, Col.vote_score] = 1
move_2_to_1(score) == IF score = 2 THEN 1 ELSE score

\* the cell that reads the file: votes for accepted talks, above 1, 2 moved to 1
read_votes(rows, talks) ==
    LET keep(row) == row.code \in talks /\ row.score > 1
        kept == SelectSeq(rows, keep)
    IN  [i \in DOMAIN kept |-> [code |-> kept[i].code, score |-> move_2_to_1(kept[i].score)]]

\* twice np.median of the values of a dict that is not empty
median2(d) ==
    LET n == Cardinality(DOMAIN d)
        below(c) == Cardinality({e \in DOMAIN d : d[e] < d[c] \/ (d[e] = d[c] /\ e < c)})
        at(i) == d[CHOOSE c \in DOMAIN d : below(c) = i - 1]
    IN  IF n % 2 = 1 THEN 2 * at((n + 1) \div 2)
        ELSE at(n \div 2) + at((n \div 2) + 1)

\* the popularity cell: sums per talk, the median for the talks without a
\* vote left (nan when no talk has one), min-max normalisation
popularity(df, talks) ==
    LET sums == [c \in {df[i].code : i \in DOMAIN df} |-> vote_score_sum(df, c)]
        filled == [c \in talks |-> IF c \in DOMAIN sums THEN 2 * sums[c] ELSE median2(sums)]
        lo == CHOOSE v \in {filled[c] : c \in talks} : \A c \in talks : v <= filled[c]
        hi == CHOOSE v \in {filled[c] : c \in talks} : \A c \in talks : v >= filled[c]
    IN  IF DOMAIN sums = {} \/ hi = lo THEN [c \in talks |-> NaN]
        ELSE [c \in talks |-> <<filled[c] - lo, hi - lo>>]

\* selection: one row per proposal with its list of votes and three columns
informative_columns(rows) ==
    [c \in {rows[i].code : i \in DOMAIN rows} |->
        LET votes == [i \in DOMAIN SelectSeq(rows, LAMBDA row : row.code = c) |->
                         SelectSeq(rows, LAMBDA row : row.code = c)[i].score]
        IN  [votes |-> votes,
             nvotes |-> Len(votes),
             sum_gt_1 |-> SumOver([i \in DOMAIN votes |-> IF votes[i] > 1 THEN votes[i] ELSE 0],
                                  DOMAIN votes),
             avg |-> <<SumOver(votes, DOMAIN votes), Len(votes)>>]]

(***************************************************************************)
(* Review scores: "Balance reviews by their personal mean" and "Join with  *)
(* submissions" of 30_selection_v1                                         *)
(***************************************************************************)
reviewVars == <<revs_df, sel_subs, avg_scores, revPc>>

RECURSIVE ProdOver(_, _)
ProdOver(f, S) ==
    IF S = {} THEN 1
    ELSE LET x == CHOOSE y \in S : TRUE IN f[x] * ProdOver(f, S \ {x})

\* mean of a column of fractions over the rows R, nan entries skipped
mean_skipna(col, R) ==
    LET valid == {i \in R : col[i] # NaN}
        den == ProdOver([i \in valid |-> col[i][2]], valid)
        num == SumOver([i \in valid |-> col[i][1] * (den \div col[i][2])], valid)
    IN  IF valid = {} THEN NaN ELSE <<num, den * Cardinality(valid)>>

\* Col.review_score as a column of fractions, None as nan
review_score(df) == [i \in DOMAIN df |-> IF df[i].scored THEN <<df[i].score, 1>> ELSE NaN]

\* faulty variant: the mean of a user taken over all reviews, scored or not
user_means_allrows(df) ==
    [u \in {df[i].user : i \in DOMAIN df} |->
        LET R == {i \in DOMAIN df : df[i].user = u}
            S == {i \in R : df[i].scored}
        IN  <<SumOver([i \in DOMAIN df |-> df[i].score], S), Cardinality(R)>>]
\* revs_df.groupby([Col.pretalx_user])[[Col.review_score]].mean()
user_means(df) ==
    [u \in {df[i].user : i \in DOMAIN df} |->
        mean_skipna(review_score(df), {i \in DOMAIN df : df[i].user = u})]

\* a - b on floats
minus(a, b) ==
    IF a = NaN \/ b = NaN THEN NaN ELSE <<a[1] * b[2] - b[1] * a[2], a[2] * b[2]>>

\* the two columns added to revs_df; the merged column is assigned by row
\* position, revs_df having the index 0..n-1
balance_reviews(df) ==
    [i \in DOMAIN df |->
        LET avg == user_means(df)[df[i].user]
        IN  [user |-> df[i].user, code |-> df[i].code, scored |-> df[i].scored,
             score |-> df[i].score, avg |-> avg,
             debiased |-> minus(review_score(df)[i], avg)]]

\* pd.merge(subs_df, revs_df[...], how='left') and the groupby aggregation
join_with_submissions(df, codes) ==
    [c \in codes |->
        LET R == {i \in DOMAIN df : df[i].code = c}
        IN  [avg_review_score |-> mean_skipna(review_score(df), R),
             avg_debiased |-> mean_skipna([i \in DOMAIN df |-> df[i].debiased], R),
             nreviews |-> Cardinality({i \in R : df[i].scored})]]

ReviewsIdle ==
    /\ revs_df = <<>>
    /\ sel_subs = {}
    /\ avg_scores = <<>>
    /\ revPc = "idle"

\* cell "Balance reviews by their personal mean"
BalanceReviews ==
    /\ revPc = "start"
    /\ revs_df' = balance_reviews(revs_df)
    /\ revPc' = "debiased"
    /\ UNCHANGED <<sel_subs, avg_scores, votes_csv, talk2idx, votes_df, pops_dict,
                   sel_votes_df, scorePc, assignVars, schedVars, clientVars>>

\* cell "Join with submissions"
JoinSubmissions ==
    /\ revPc = "debiased"
    /\ avg_scores' = join_with_submissions(revs_df, sel_subs)
    /\ revPc' = "joined"
    /\ UNCHANGED <<revs_df, sel_subs, votes_csv, talk2idx, votes_df, pops_dict,
                   sel_votes_df, scorePc, assignVars, schedVars, clientVars>>

\* reviews_as_df(revs): one row per review; the score of a review without a
\* score is not read
ReviewRowInputs ==
    UNION {[1..n -> {row \in [user : 1..NumScoreUsers, code : 1..NumScoreSubs,
                               scored : BOOLEAN, score : 0..MaxScore] :
                        row.scored <=> row.score > 0}] : n \in 0..MaxReviewRows}

NextReviews ==
    \/ BalanceReviews
    \/ JoinSubmissions

ScoreIdle ==
    /\ votes_csv = <<>>
    /\ talk2idx = {}
    /\ votes_df = <<>>
    /\ pops_dict = <<>>
    /\ sel_votes_df = <<>>
    /\ scorePc = [sched |-> "idle", sel |-> "idle"]
    /\ ReviewsIdle

\* scheduling, cell "votes_df = pd.read_csv(...)"
SchedReadVotes ==
    /\ scorePc.sched = "start"
    /\ votes_df' = read_votes(votes_csv, talk2idx)
    /\ scorePc' = [scorePc EXCEPT !.sched = "votes"]
    /\ UNCHANGED <<votes_csv, talk2idx, pops_dict, sel_votes_df, reviewVars,
                   assignVars, schedVars, clientVars>>

\* scheduling, cell "pops_dict = ..."
SchedPopularity ==
    /\ scorePc.sched = "votes"
    /\ pops_dict' = popularity(votes_df, talk2idx)
    /\ scorePc' = [scorePc EXCEPT !.sched = "pops"]
    /\ UNCHANGED <<votes_csv, talk2idx, votes_df, sel_votes_df, reviewVars,
                   assignVars, schedVars, clientVars>>

\* selection, cells "votes_df = pd.read_csv(...)" and "add a few informative columns"
SelectVotes ==
    /\ scorePc.sel = "start"
    /\ sel_votes_df' = informative_columns(votes_csv)
    /\ scorePc' = [scorePc EXCEPT !.sel = "votes"]
    /\ UNCHANGED <<votes_csv, talk2idx, votes_df, pops_dict, reviewVars,
                   assignVars, schedVars, clientVars>>

VoteRowInputs ==
    UNION {[1..n -> [code : VoteCodes, score : 1..MaxVote]] : n \in 0..MaxVoteRows}

(***************************************************************************)
(* The upstream client: the lazy sequence of a list endpoint and the       *)
(* expansion of identifier references through the cache                    *)
(***************************************************************************)
Null == [params |-> "", page |-> 0]
Miss == [id |-> 0, name |-> "miss"]
QueryInputs == {"", "state=submitted"}

\* upstream: the records a query selects (every third record is not in
\* state submitted), in upstream order
Matching(q) ==
    AscList({r \in 1..up_total : q = "" \/ r % 3 # 0})

\* upstream: the response {count, next, results} to a request for a page
Response(url) ==
    LET all == Matching(url.params)
        lo == (url.page - 1) * page_size + 1
        hi == IF url.page * page_size < Len(all) THEN url.page * page_size ELSE Len(all)
    IN  [count |-> Len(all),
         next |-> IF hi < Len(all) THEN [params |-> url.params, page |-> url.page + 1]
                  ELSE Null,
         results |-> SubSeq(all, lo, hi)]

\* faulty variant: the caller's parameters are not kept for the next page
next_request_noparams(next) == [next EXCEPT !.params = ""]
\* refilling follows next_url as the upstream gave it
next_request(next) == next

\* faulty variant: only the first page is materialized
drain_firstpage(url) == [results |-> Response(url).results, requests |-> 1]
\* blocking: the cursor chain that starts at url is drained, the pages are
\* concatenated in the order they arrive
RECURSIVE drain(_)
drain(url) ==
    LET resp == Response(url)
    IN  IF resp.next = Null
        THEN [results |-> resp.results, requests |-> 1]
        ELSE LET rest == drain(next_request(resp.next))
             IN  [results |-> resp.results \o rest.results,
                  requests |-> rest.requests + 1]

\* upstream: the auxiliary entity behind an identifier
TrackEntity(id) == [id |-> id, name |-> "track"]

\* get(kind, key) -> entity | miss
get(c, key) ==
    IF \E i \in DOMAIN c : c[i].id = key
    THEN c[CHOOSE i \in DOMAIN c : c[i].id = key]
    ELSE Miss
\* faulty variant: the fetched entity is not kept
put_dropped(c, entity) == c
\* put(kind, key, entity); on overflow of a configured bound the entries
\* inserted least recently are dropped
put(c, entity) ==
    LET rest == SelectSeq(c, LAMBDA e : e.id # entity.id)
        all == Append(rest, entity)
    IN  IF soft_bound > 0 /\ Len(all) > soft_bound
        THEN SubSeq(all, Len(all) - soft_bound + 1, Len(all))
        ELSE all

\* bulk_prepopulate(kind, event): one list request fills the whole kind
RECURSIVE bulk_prepopulate(_, _)
bulk_prepopulate(c, ids) ==
    IF ids = {} THEN c
    ELSE LET id == CHOOSE x \in ids : \A y \in ids : x <= y
         IN  bulk_prepopulate(put(c, TrackEntity(id)), ids \ {id})

ClientIdle ==
    /\ up_total = 0
    /\ page_size = 1
    /\ track_of = <<>>
    /\ query = ""
    /\ soft_bound = 0
    /\ prepopulation = FALSE
    /\ blocking = FALSE
    /\ next_url = Null
    /\ page_buffer = <<>>
    /\ count = 0
    /\ received = <<>>
    /\ list_requests = 0
    /\ detail_requests = 0
    /\ bulk_requests = 0
    /\ cache = <<>>
    /\ referenced = {}
    /\ clears = 0
    /\ clientPc = "idle"

fetchVars == <<endpoint, max_retries, status_log, delay, outcome, fetchPc>>
FetchIdle ==
    /\ endpoint = "list"
    /\ max_retries = 0
    /\ status_log = <<>>
    /\ delay = 0
    /\ outcome = "pending"
    /\ fetchPc = "idle"

clientInputs == <<up_total, page_size, track_of, query, soft_bound, prepopulation, blocking>>
othersUnchanged == UNCHANGED <<clientInputs, assignVars, schedVars, scoreVars, fetchVars>>

\* list(event, params) -> (count, lazy_sequence): the first page is
\* requested; a blocking client drains the cursor chain before it returns, a
\* lazy one leaves the other pages to the iteration; with pre-population
\* enabled the first list request fills the cache of the kind the records
\* reference
ListCall ==
    /\ clientPc = "start"
    /\ LET first == [params |-> query, page |-> 1]
           resp == Response(first)
       IN  /\ count' = resp.count
           /\ IF blocking
              THEN /\ page_buffer' = drain(first).results
                   /\ next_url' = Null
                   /\ list_requests' = list_requests + drain(first).requests
              ELSE /\ page_buffer' = resp.results
                   /\ next_url' = resp.next
                   /\ list_requests' = list_requests + 1
    /\ IF prepopulation
       THEN /\ cache' = bulk_prepopulate(cache, 1..NumAux)
            /\ bulk_requests' = bulk_requests + 1
       ELSE UNCHANGED <<cache, bulk_requests>>
    /\ clientPc' = "iter"
    /\ UNCHANGED <<received, detail_requests, referenced, clears>>
    /\ othersUnchanged

\* advancing with an empty buffer: refill from next_url
Refill ==
    /\ clientPc = "iter"
    /\ page_buffer = <<>>
    /\ next_url # Null
    /\ LET resp == Response(next_request(next_url))
       IN  /\ page_buffer' = resp.results
           /\ next_url' = resp.next
    /\ list_requests' = list_requests + 1
    /\ UNCHANGED <<count, received, detail_requests, bulk_requests, cache, referenced,
                   clears, clientPc>>
    /\ othersUnchanged

\* the next element is yielded in nested form: the track reference is looked
\* up in the cache; a miss triggers a single detail fetch, a put, and a retry
Yield ==
    /\ clientPc = "iter"
    /\ page_buffer # <<>>
    /\ LET r == Head(page_buffer)
           id == track_of[r]
           hit == get(cache, id) # Miss
           after == IF hit THEN cache ELSE put(cache, TrackEntity(id))
       IN  /\ cache' = after
           /\ detail_requests' = IF hit THEN detail_requests ELSE detail_requests + 1
           /\ received' = Append(received, [code |-> r, track |-> get(after, id)])
           /\ referenced' = referenced \cup {id}
    /\ page_buffer' = Tail(page_buffer)
    /\ UNCHANGED <<next_url, count, list_requests, bulk_requests, clears, clientPc>>
    /\ othersUnchanged

\* advancing with an empty buffer and no next page: the sequence ends
Exhausted ==
    /\ clientPc = "iter"
    /\ page_buffer = <<>>
    /\ next_url = Null
    /\ clientPc' = "drained"
    /\ UNCHANGED <<next_url, page_buffer, count, received, list_requests, detail_requests,
                   bulk_requests, cache, referenced, clears>>
    /\ othersUnchanged

\* clear(kind | all), called between two elements
ClearCache ==
    /\ clientPc = "iter"
    /\ clears < MaxClears
    /\ cache' = <<>>
    /\ referenced' = {}
    /\ clears' = clears + 1
    /\ UNCHANGED <<next_url, page_buffer, count, received, list_requests, detail_requests,
                   bulk_requests, clientPc>>
    /\ othersUnchanged

NextClient ==
    \/ ListCall
    \/ Refill
    \/ Yield
    \/ Exhausted
    \/ ClearCache

(***************************************************************************)
(* The paginated fetcher: one request, throttled and retried               *)
(***************************************************************************)
Statuses == {200, 400, 403, 404, 429, 500, 503}
Endpoints == {"list", "detail"}

\* faulty variant: every error status is retried
retryable_any_error(status) == status >= 400
\* HTTP 429 or 5xx
retryable(status) == status = 429 \/ status \in 500..599

\* bounded exponential backoff: the base doubles per retry up to the cap,
\* the jitter adds less than one base unit
backoff(retries, jitter) ==
    (IF 2 ^ retries < MaxBackoff THEN 2 ^ retries ELSE MaxBackoff) + jitter

\* the failure a status that is not retried ends the request with
client_error(status, ep) ==
    IF status = 404 /\ ep = "detail" THEN "NotFound" ELSE "UpstreamClientError"

\* the request is sent and the upstream answers with a status
Send ==
    /\ fetchPc = "send"
    /\ \E status \in Statuses, jitter \in 0..1 :
          /\ status_log' = Append(status_log, status)
          /\ IF status \in 200..299
             THEN outcome' = "ok" /\ fetchPc' = "done" /\ delay' = 0
             ELSE IF retryable(status)
             THEN IF Len(status_log) < max_retries
                  THEN /\ outcome' = outcome
                       /\ delay' = backoff(Len(status_log), jitter)
                       /\ fetchPc' = "backoff"
                  ELSE outcome' = "UpstreamUnavailable" /\ fetchPc' = "done" /\ delay' = 0
             ELSE /\ outcome' = client_error(status, endpoint)
                  /\ fetchPc' = "done"
                  /\ delay' = 0
    /\ UNCHANGED <<endpoint, max_retries>>
    /\ UNCHANGED <<clientInputs, next_url, page_buffer, count, received, list_requests,
                   detail_requests, bulk_requests, cache, referenced, clears, clientPc,
                   assignVars, schedVars, scoreVars>>

\* the backoff has passed: the request is sent again
Backoff ==
    /\ fetchPc = "backoff"
    /\ fetchPc' = "send"
    /\ delay' = 0
    /\ UNCHANGED <<endpoint, max_retries, status_log, outcome>>
    /\ UNCHANGED <<clientInputs, next_url, page_buffer, count, received, list_requests,
                   detail_requests, bulk_requests, cache, referenced, clears, clientPc,
                   assignVars, schedVars, scoreVars>>

NextFetch ==
    \/ Send
    \/ Backoff

(***************************************************************************)
(* The schedule model of 40_scheduling_v1: index sets, parameter tables,   *)
(* binary variables, constraints and the weighted objective.               *)
(***************************************************************************)
sTalks == 1..NumTalks
sDays == 1..NumDays
sSessions == 1..NumSessions
sSlots == 1..NumSlots
sRooms == 1..NumRooms
sMainTracks == 1..NumMainTracks
sSubTracks == 1..NumSubTracks

Plenary == 0                                    \* the track left out of both track sets
SlotIdx == sDays \X sSessions \X sSlots \X sRooms       \* (d, s, l, r)
TimeIdx == sDays \X sSessions \X sSlots                 \* (d, s, l)
SessionRooms == sDays \X sSessions \X sRooms            \* (d, s, r)
TalkPairs == {p \in sTalks \X sTalks : p[1] < p[2]}     \* combinations(model.sTalks, 2)

\* discretisation of the two float tables: the room fit is held in units of
\* 1 / PopBins, the co-occurrence penalty in units of 1 / CoocBins^2
PopBins == 49
CoocBins == 20
\* the numbers of bins the edges are tabulated for, 20 and 49 being those of
\* the notebook
BinInputs == {1, 2, 6, 7, 20, 49}
\* bins = np.linspace(0, 1, n_bins + 1) holds the doubles k * (1 / n_bins),
\* while an entry x = k / n_bins is the correctly rounded quotient: for
\* these <<n_bins, k>>, and no other with n_bins in BinInputs, the edge is
\* the smaller double, bins[k] < x
EdgesBelow ==
    {<<6, 5>>, <<7, 5>>} \cup
    {<<49, k>> : k \in {5, 9, 10, 11, 13, 15, 18, 20, 22, 23, 26, 30, 31, 35, 36,
                       39, 40, 41, 44, 45, 46}}
\* faulty variant: np.digitize with right=False, bins[i-1] <= x < bins[i]
quantize_left(num, den, nb) == ((num * nb) \div den) + 1
\* quantize(x, n_bins) * n_bins for x = num / den in [0, 1]: the index i of
\* np.digitize(x, bins, right=True), bins[i-1] < x <= bins[i]. An x off the
\* edges is farther from them than the rounding, so i is the exact ceiling
\* of x * n_bins; an x on an edge meets the edge as the doubles compare
quantize(num, den, nb) ==
    LET k == (num * nb + den - 1) \div den
    IN  IF num * nb = k * den /\ <<nb, k>> \in EdgesBelow THEN k + 1 ELSE k
\* the penalty 0.6 written over every pair of sponsored talks, as a bin
SponsoredLevel == quantize(6, 10, CoocBins)
\* the weights of the five objective terms
WPreference == 100000000
WRoomFit == 1000000
WCoOccurence == 10000
WMainTrack == 100
WSubTrack == 1

NoSolution == <<>>

QuantIdle ==
    /\ x_num = <<>>
    /\ x_den = 1
    /\ n_bins = 1
    /\ digitized = <<>>
    /\ quantPc = "idle"

pTalkLengths == params.pTalkLengths
pSlotLengths == params.pSlotLengths
pPreferences == params.pPreferences
pTalkRoomFit == params.pTalkRoomFit
pCoOccurencesPenalty == params.pCoOccurencesPenalty
pTalk2MainTrack == params.pTalk2MainTrack
pTalk2SubTrack == params.pTalk2SubTrack

\* ---- parameter tables from the talk data ----
\* the main track is the part of the track name in front of the colon
MainOf(track) == ((track - 1) % NumMainTracks) + 1

talk2main_track(tracks) ==
    [t \in sTalks |-> [m \in sMainTracks |->
        IF tracks[t] # Plenary /\ MainOf(tracks[t]) = m THEN 1 ELSE 0]]

talk2sub_track(tracks) ==
    [t \in sTalks |-> [b \in sSubTracks |-> IF tracks[t] = b THEN 1 ELSE 0]]

\* rooms that sponsored talks should not get, and the buffer slots
LargeRooms == {1}
IsBuffer(k) == k[1] = NumDays /\ k[2] = NumSessions /\ k[3] = NumSlots

init_slot_preference(sponsored_talks, t, k) ==
    IF t \in sponsored_talks /\ k[4] \notin LargeRooms THEN 1
    ELSE IF IsBuffer(k) THEN -1
    ELSE 0

\* quantize(pop, 49) * cap, times PopBins; pop_bins[t] is the bin of the
\* talk's normalised popularity, cap[r] the normalised capacity of the room
talk_room_fit(pop_bins, cap) ==
    [t \in sTalks |-> [r \in sRooms |-> pop_bins[t] * cap[r]]]

\* levels[p] is the bin of the normalised Gram matrix entry; sponsored pairs
\* are overwritten with 0.6 before the table is quantised and squared
talk_cooccurence_penalty(levels, sponsored_talks) ==
    [p \in TalkPairs |->
        LET lv == IF p[1] \in sponsored_talks /\ p[2] \in sponsored_talks
                  THEN SponsoredLevel ELSE levels[p]
        IN  lv * lv]

\* ---- expressions over the decision variable ----
vbTalkRoom(x, t, r) ==
    SumOver([k \in SlotIdx |-> IF k[4] = r THEN x[t][k] ELSE 0], SlotIdx)
vbParallelTalk(x, t, tm) ==
    SumOver([r \in sRooms |-> x[t][<<tm[1], tm[2], tm[3], r>>]], sRooms)
vbTalkSession(x, t, sr) ==
    SumOver([l \in sSlots |-> x[t][<<sr[1], sr[2], l, sr[3]>>]], sSlots)

\* ---- constraints ----
\* row is vbSchedule[t, ...], the slots of one talk. vbCoOccurences is kept
\* for the pairs of combinations(model.sTalks, 2) only: the other entries
\* of the table are in no constraint and not in the objective.
\* (The consecutive-tutorial disjunctions are commented out in the notebook.)
ctTalkSlotFit(row, t) ==
    SumOver([k \in SlotIdx |-> row[k] * pSlotLengths[k]], SlotIdx) = pTalkLengths[t]
\* faulty variant: ">= 1" in place of "== 1"
ctTalkAssigned_atleast(row) ==
    SumOver(row, SlotIdx) >= 1
ctTalkAssigned(row) ==
    SumOver(row, SlotIdx) = 1
ctTimeRoomOccup(x, k) ==
    SumOver([t \in sTalks |-> x[t][k]], sTalks) <= 1
\* faulty variant: the bound is off by one and never binds
ctCoOccurences_slack(x, co, p, tm) ==
    co[p] + 2 >= vbParallelTalk(x, p[1], tm) + vbParallelTalk(x, p[2], tm)
ctCoOccurences(x, co, p, tm) ==
    co[p] + 1 >= vbParallelTalk(x, p[1], tm) + vbParallelTalk(x, p[2], tm)
\* faulty variant: the indicator is not scaled by len(model.sSlots)
ctMainTrackSessionRoom_unscaled(x, mt, sr, m) ==
    mt[<<sr, m>>] >=
        SumOver([t \in sTalks |-> vbTalkSession(x, t, sr) * pTalk2MainTrack[t][m]], sTalks)
ctMainTrackSessionRoom(x, mt, sr, m) ==
    mt[<<sr, m>>] * NumSlots >=
        SumOver([t \in sTalks |-> vbTalkSession(x, t, sr) * pTalk2MainTrack[t][m]], sTalks)
ctSubTrackSessionRoom(x, st, sr, b) ==
    st[<<sr, b>>] * NumSlots >=
        SumOver([t \in sTalks |-> vbTalkSession(x, t, sr) * pTalk2SubTrack[t][b]], sTalks)

\* the feasible points, built talk by talk and then table by table
TalkRows(t) ==
    {row \in [SlotIdx -> {0, 1}] : ctTalkSlotFit(row, t) /\ ctTalkAssigned(row)}
Schedules ==
    {x \in [sTalks -> UNION {TalkRows(t) : t \in sTalks}] :
        /\ \A t \in sTalks : x[t] \in TalkRows(t)
        /\ \A k \in SlotIdx : ctTimeRoomOccup(x, k)}
CoOccurencesFor(x) ==
    {co \in [TalkPairs -> {0, 1}] :
        \A p \in TalkPairs : \A tm \in TimeIdx : ctCoOccurences(x, co, p, tm)}
MainTrackFor(x) ==
    {mt \in [SessionRooms \X sMainTracks -> {0, 1}] :
        \A sr \in SessionRooms : \A m \in sMainTracks : ctMainTrackSessionRoom(x, mt, sr, m)}
SubTrackFor(x) ==
    {st \in [SessionRooms \X sSubTracks -> {0, 1}] :
        \A sr \in SessionRooms : \A b \in sSubTracks : ctSubTrackSessionRoom(x, st, sr, b)}
Feasible ==
    UNION {{[vbSchedule |-> x, vbCoOccurences |-> co,
             vbMainTrackSessionRoom |-> mt, vbSubTrackSessionRoom |-> st] :
                co \in CoOccurencesFor(x), mt \in MainTrackFor(x), st \in SubTrackFor(x)} :
           x \in Schedules}

\* ---- objective ----
preference_term(sol) ==
    SumOver([t \in sTalks |->
        SumOver([k \in SlotIdx |-> pPreferences[t][k] * sol.vbSchedule[t][k]], SlotIdx)],
        sTalks)
\* in units of 1 / PopBins
pop_roomcap_term(sol) ==
    SumOver([t \in sTalks |->
        SumOver([r \in sRooms |-> pTalkRoomFit[t][r] * vbTalkRoom(sol.vbSchedule, t, r)],
                sRooms)], sTalks)
\* in units of 1 / CoocBins^2
cooccurance_term(sol) ==
    SumOver([p \in TalkPairs |-> sol.vbCoOccurences[p] * pCoOccurencesPenalty[p]], TalkPairs)
main_tack_term(sol) ==
    SumOver(sol.vbMainTrackSessionRoom, SessionRooms \X sMainTracks)
sub_track_term(sol) ==
    SumOver(sol.vbSubTrackSessionRoom, SessionRooms \X sSubTracks)

\* the five terms of objective(model) at a solution
objective_terms(sol) ==
    <<preference_term(sol), pop_roomcap_term(sol), cooccurance_term(sol),
      main_tack_term(sol), sub_track_term(sol)>>

\* faulty variant: the main track term added, not subtracted
LowerTerms_mixing(tm) ==
    WRoomFit * tm[2]
    - (WCoOccurence \div (CoocBins * CoocBins)) * PopBins * tm[3]
    + WMainTrack * PopBins * tm[4]
    - WSubTrack * PopBins * tm[5]
\* the four lower terms with their weights, times PopBins (WCoOccurence is a
\* multiple of CoocBins^2, so every product is an integer)
LowerTerms(tm) ==
    WRoomFit * tm[2]
    - (WCoOccurence \div (CoocBins * CoocBins)) * PopBins * tm[3]
    - WMainTrack * PopBins * tm[4]
    - WSubTrack * PopBins * tm[5]

\* the objective at terms ta exceeds the objective at terms tb, compared exactly:
\* PopBins * WPreference * dPref + dLower > 0 iff WPreference * dPref > floor(-dLower / PopBins)
ObjectiveGreater(ta, tb) ==
    WPreference * (ta[1] - tb[1]) > (LowerTerms(tb) - LowerTerms(ta)) \div PopBins

\* ---- inputs ----
TalkLengthValues == {30, 45}
SlotLengthValues == {0, 30, 45}

DefaultTracks == [t \in sTalks |-> IF t = NumTalks THEN Plenary ELSE ((t - 1) % NumSubTracks) + 1]
PairedTracks == [t \in sTalks |-> ((((t + 1) \div 2) - 1) % NumSubTracks) + 1]
TrackInputs == {DefaultTracks, PairedTracks}
SponsorInputs == {{}, {1, 2}}
\* normalised by the maximum, so talk 1 is taken as the most popular talk
PopInputs == {pb \in [sTalks -> {0, PopBins}] : pb[1] = PopBins /\ \A t \in sTalks \ {1, 2} : pb[t] = pb[2]}
\* normalised capacities: the smallest room is 0, the largest 1
CapInputs == {[r \in sRooms |-> IF r = 1 THEN 1 ELSE 0]}
\* normalised by the maximum, so the pair (1, 2) is taken as the largest entry
LevelInputs == {lv \in [TalkPairs -> {0, 1, CoocBins}] : lv[<<1, 2>>] = CoocBins}

EvenSlots == [k \in SlotIdx |-> IF k[3] = NumSlots /\ k[4] = NumRooms THEN 0 ELSE 30]
EvenTalks == [t \in sTalks |-> 30]

MakeParams(talkLen, slotLen, sponsored_talks, tracks, pop_bins, cap, levels) ==
    [sponsored_talks |-> sponsored_talks,
     cooccurance_penalty |-> levels,
     pTalkLengths |-> talkLen,
     pSlotLengths |-> slotLen,
     pPreferences |-> [t \in sTalks |-> [k \in SlotIdx |-> init_slot_preference(sponsored_talks, t, k)]],
     pTalkRoomFit |-> talk_room_fit(pop_bins, cap),
     pCoOccurencesPenalty |-> talk_cooccurence_penalty(levels, sponsored_talks),
     pTalk2MainTrack |-> talk2main_track(tracks),
     pTalk2SubTrack |-> talk2sub_track(tracks)]

\* time tables of every shape (talks ordered by length), one set of
\* preferences and scores
LayoutInputs ==
    {MakeParams(tl, sl, {}, DefaultTracks, [t \in sTalks |-> PopBins],
                [r \in sRooms |-> IF r = 1 THEN 1 ELSE 0], [p \in TalkPairs |-> CoocBins]) :
        tl \in {f \in [sTalks -> TalkLengthValues] : \A t \in sTalks \ {1} : f[t - 1] <= f[t]},
        sl \in [SlotIdx -> SlotLengthValues]}
\* one time table, preferences and scores of every shape
ScoreInputs ==
    {MakeParams(EvenTalks, EvenSlots, sp, tr, pb, cap, lv) :
        sp \in SponsorInputs, tr \in TrackInputs, pb \in PopInputs,
        cap \in CapInputs, lv \in LevelInputs}

\* ---- the run of the notebook ----
\* the solver's file holds a feasible point: the optimum, or the incumbent
\* when the time limit ended the search
LoadSolution ==
    /\ schedPc = "built"
    /\ \E sol \in Feasible :
        /\ solution' = sol
        /\ schedPc' = "loaded"
    /\ UNCHANGED <<assignVars, scoreVars, clientVars, params, quantVars>>

\* no feasible point: there is no solution file to load
NoSchedule ==
    /\ schedPc = "built"
    /\ Feasible = {}
    /\ schedPc' = "infeasible"
    /\ UNCHANGED <<assignVars, scoreVars, clientVars, params, solution, quantVars>>

\* the time table: the slot each talk sits in
schedule_df == {<<k, t>> \in SlotIdx \X sTalks : solution.vbSchedule[t][k] = 1}

InitSched ==
    /\ params \in LayoutInputs \cup ScoreInputs
    /\ solution = NoSolution
    /\ schedPc = "built"
    /\ QuantIdle
    /\ subs_track = <<>>
    /\ all_proposals = [r \in Reviewers |-> FALSE]
    /\ track_prefs = [r \in Reviewers |-> {1}]
    /\ revs = <<>>
    /\ target_nreviews = 1
    /\ buffer = 0
    /\ pc = "idle"
    /\ AssignIdle
    /\ ScoreIdle
    /\ ClientIdle
    /\ FetchIdle

NextSched ==
    \/ LoadSolution
    \/ NoSchedule

SpecSched == InitSched /\ [][NextSched]_vars

(***************************************************************************)
(* Specifications                                                          *)
(***************************************************************************)
\* the reviewer assignment, the schedule model untouched
Init ==
    /\ AssignInputs
    /\ pc = "call"
    /\ AssignIdle
    /\ params = <<>>
    /\ solution = NoSolution
    /\ schedPc = "idle"
    /\ QuantIdle
    /\ ClientIdle
    /\ FetchIdle
    /\ ScoreIdle
Next == NextAssign
Spec == Init /\ [][Next]_vars

\* the reviewer assignment run again after reviews were completed
SpecRerun == Init /\ [][NextRerun]_vars

InitScores ==
    /\ votes_csv \in VoteRowInputs
    /\ talk2idx \in (SUBSET VoteCodes) \ {{}}
    /\ votes_df = <<>>
    /\ pops_dict = <<>>
    /\ sel_votes_df = <<>>
    /\ scorePc = [sched |-> "start", sel |-> "start"]
    /\ ReviewsIdle
    /\ subs_track = <<>>
    /\ all_proposals = [r \in Reviewers |-> FALSE]
    /\ track_prefs = [r \in Reviewers |-> {1}]
    /\ revs = <<>>
    /\ target_nreviews = 1
    /\ buffer = 0
    /\ pc = "idle"
    /\ AssignIdle
    /\ params = <<>>
    /\ solution = NoSolution
    /\ schedPc = "idle"
    /\ QuantIdle
    /\ ClientIdle
    /\ FetchIdle

InitReviews ==
    /\ revs_df \in ReviewRowInputs
    /\ sel_subs \in (SUBSET (1..NumScoreSubs)) \ {{}}
    /\ avg_scores = <<>>
    /\ revPc = "start"
    /\ votes_csv = <<>>
    /\ talk2idx = {}
    /\ votes_df = <<>>
    /\ pops_dict = <<>>
    /\ sel_votes_df = <<>>
    /\ scorePc = [sched |-> "idle", sel |-> "idle"]
    /\ subs_track = <<>>
    /\ all_proposals = [r \in Reviewers |-> FALSE]
    /\ track_prefs = [r \in Reviewers |-> {1}]
    /\ revs = <<>>
    /\ target_nreviews = 1
    /\ buffer = 0
    /\ pc = "idle"
    /\ AssignIdle
    /\ params = <<>>
    /\ solution = NoSolution
    /\ schedPc = "idle"
    /\ QuantIdle
    /\ ClientIdle
    /\ FetchIdle

\* the selection notebook scoring the reviews
SpecReviews == InitReviews /\ [][NextReviews]_vars

InitClient ==
    /\ up_total \in 0..MaxRecords
    /\ page_size \in 1..MaxPageSize
    /\ track_of \in [1..up_total -> 1..NumAux]
    /\ query \in QueryInputs
    /\ soft_bound \in 0..MaxSoftBound
    /\ prepopulation \in BOOLEAN
    /\ blocking \in BOOLEAN
    /\ next_url = Null
    /\ page_buffer = <<>>
    /\ count = 0
    /\ received = <<>>
    /\ list_requests = 0
    /\ detail_requests = 0
    /\ bulk_requests = 0
    /\ cache = <<>>
    /\ referenced = {}
    /\ clears = 0
    /\ clientPc = "start"
    /\ FetchIdle
    /\ subs_track = <<>>
    /\ all_proposals = [r \in Reviewers |-> FALSE]
    /\ track_prefs = [r \in Reviewers |-> {1}]
    /\ revs = <<>>
    /\ target_nreviews = 1
    /\ buffer = 0
    /\ pc = "idle"
    /\ AssignIdle
    /\ ScoreIdle
    /\ params = <<>>
    /\ solution = NoSolution
    /\ schedPc = "idle"
    /\ QuantIdle

\* a consumer draining the lazy sequence of a list endpoint
SpecClient == InitClient /\ [][NextClient]_vars

\* the arrays quantize is called with: two entries in [0, 1]
DenInputs == {1, 3, 6, 7, 10, 98}
InitQuantize ==
    /\ x_den \in DenInputs
    /\ x_num \in [1..2 -> 0..x_den]
    /\ n_bins \in BinInputs
    /\ digitized = <<>>
    /\ quantPc = "call"
    /\ params = <<>>
    /\ solution = NoSolution
    /\ schedPc = "idle"
    /\ subs_track = <<>>
    /\ all_proposals = [r \in Reviewers |-> FALSE]
    /\ track_prefs = [r \in Reviewers |-> {1}]
    /\ revs = <<>>
    /\ target_nreviews = 1
    /\ buffer = 0
    /\ pc = "idle"
    /\ AssignIdle
    /\ ScoreIdle
    /\ ClientIdle
    /\ FetchIdle

\* return np.digitize(x, bins, right=True) / n_bins
Quantize ==
    /\ quantPc = "call"
    /\ digitized' = [i \in DOMAIN x_num |-> quantize(x_num[i], x_den, n_bins)]
    /\ quantPc' = "done"
    /\ UNCHANGED <<x_num, x_den, n_bins, params, solution, schedPc,
                   assignVars, scoreVars, clientVars>>

NextQuantize == Quantize

\* one call of quantize of the scheduling notebook
SpecQuantize == InitQuantize /\ [][NextQuantize]_vars

InitFetch ==
    /\ endpoint \in Endpoints
    /\ max_retries \in 0..MaxRetries
    /\ status_log = <<>>
    /\ delay = 0
    /\ outcome = "pending"
    /\ fetchPc = "send"
    /\ ClientIdle
    /\ subs_track = <<>>
    /\ all_proposals = [r \in Reviewers |-> FALSE]
    /\ track_prefs = [r \in Reviewers |-> {1}]
    /\ revs = <<>>
    /\ target_nreviews = 1
    /\ buffer = 0
    /\ pc = "idle"
    /\ AssignIdle
    /\ ScoreIdle
    /\ params = <<>>
    /\ solution = NoSolution
    /\ schedPc = "idle"
    /\ QuantIdle

\* one request of the fetcher with its retries
SpecFetch == InitFetch /\ [][NextFetch]_vars

NextScores ==
    \/ SchedReadVotes
    \/ SchedPopularity
    \/ SelectVotes

\* the two notebooks working on a public votes file
SpecScores == InitScores /\ [][NextScores]_vars

(***************************************************************************)
(* Properties of the reviewer assignment                                   *)
(***************************************************************************)
Min(a, b) == IF a <= b THEN a ELSE b
\* the pool reviewers whose list contains submission s
Holders(s) == {r \in DOMAIN curr_assignments : Contains(curr_assignments[r], s)}
\* the pool reviewers find_reviewer may pick for s, and those with its track
FreeOf(s) == {r \in Pool : ~Contains(curr_assignments[r], s)}
PrefFreeOf(s) == {r \in FreeOf(s) : subs_track[s] \in track_prefs[r]}
Returned == pc \in {"returned", "done"}
Assigned(s) == \E i \in DOMAIN assigned_log : assigned_log[i][1] = s

\* C1: once assign_proposals has returned, every proposal is in the lists
\* of at least min(target - completed, pool size) distinct pool reviewers.
C1_EnoughReviewers ==
    Returned =>
        \A s \in Subs :
            Cardinality(Holders(s)) >=
                Min(target_nreviews - nreviews(s), Cardinality(Pool))

\* C2: the only way the run fails is the track precondition; a proposal
\* nobody is left for never aborts the run.
C2_OnlyPreconditionFails ==
    pc = "raised" => err.kind = "RuntimeError"

\* C3: the main pass appends a proposal only to a reviewer whose list does
\* not contain it, and no list ever contains a proposal twice.
C3_NoRepeats ==
    \A r \in DOMAIN curr_assignments :
        \A i, j \in DOMAIN curr_assignments[r] :
            i # j => curr_assignments[r][i] # curr_assignments[r][j]
C3_AppendIsNew ==
    pc = "for" =>
        \A r \in DOMAIN curr_assignments :
            curr_assignments'[r] # curr_assignments[r] =>
                /\ ~Contains(curr_assignments[r], order[pos])
                /\ curr_assignments'[r] = Append(curr_assignments[r], order[pos])
C3_NeverAssignedTwice == []C3_NoRepeats /\ [][C3_AppendIsNew]_vars
C3_Witness ==
    /\ pc = "done"
    /\ \E s \in Subs :
          /\ Assigned(s)
          /\ \E r \in Pool : <<r, s>> \in DOMAIN revs
          /\ \E r \in Pool : Len(curr_assignments[r]) >= 2

\* C4: when the tracks of the proposals and the tracks of the preference
\* lists differ, in either direction, the run fails with an error that
\* carries the tracks found only on each side, and nothing is assigned.
C4_TrackMismatchFails ==
    (pc # "call" /\ reviewer_prefs(Pool) # sub_prefs) =>
        /\ pc = "raised"
        /\ err = [kind |-> "RuntimeError",
                  only_reviewers |-> reviewer_prefs(Pool) \ sub_prefs,
                  only_submissions |-> sub_prefs \ reviewer_prefs(Pool)]
        /\ curr_assignments = <<>>
        /\ assigned_log = <<>>
        /\ new_assign_df = NoResult
C4_Witness ==
    /\ pc = "raised"
    /\ err.kind = "RuntimeError"
    /\ err.only_reviewers # {}
    /\ err.only_submissions # {}

\* C7: the main pass never appends a proposal whose completed reviews have
\* reached the target.
C7_CompleteGetsNothing ==
    \A i \in DOMAIN assigned_log : nreviews(assigned_log[i][1]) < target_nreviews
C7_Witness ==
    /\ pc = "done"
    /\ buffer > 0
    /\ assigned_log # <<>>
    /\ \E s \in Subs : nreviews(s) >= target_nreviews /\ Holders(s) # Pool

\* C8: every wants-all reviewer ends with exactly the codes of subs_df, and
\* the other reviewers end with the lists of the run on the reviewer table
\* without the wants-all rows (the proposals and their reviews unchanged).
C8_WantsAllApart ==
    pc = "done" =>
        LET others == {r \in Reviewers : ~all_proposals[r]}
            ref == assign_proposals(others)
        IN /\ \A r \in Reviewers \ others :
                 /\ r \in DOMAIN new_assign_df
                 /\ Len(new_assign_df[r]) = Cardinality(Subs)
                 /\ \A s \in Subs : Contains(new_assign_df[r], s)
           /\ ~ref.raised
           /\ \A r \in others :
                 r \in DOMAIN new_assign_df /\ new_assign_df[r] = ref.assign[r]
C8_Witness ==
    /\ pc = "done"
    /\ assign_all_emails # {}
    /\ \E r \in assign_all_emails : review(r) # <<>>
    /\ assigned_log # <<>>

\* C9: in the result every reviewer, wants-all reviewers included, still
\* holds each proposal he or she has already reviewed.
C9_ReviewedKept ==
    pc = "done" =>
        \A r \in DOMAIN new_assign_df :
            \A c \in Codes :
                <<r, c>> \in DOMAIN revs => Contains(new_assign_df[r], c)

\* C12: with no proposal at all the run completes without an error, whatever
\* the reviewer pool is, and nothing is assigned.
C12_EmptyProposalsComplete ==
    (Subs = {} /\ pc # "call") =>
        /\ pc # "raised"
        /\ err = NoErr
        /\ assigned_log = <<>>

\* C13: with a pool of exactly one reviewer whose preferences are the tracks
\* of the proposals, the run never fails, and once it has returned every
\* proposal that still needs reviews is in that reviewer's list exactly once.
C13_SingleReviewerGetsAll ==
    (Cardinality(Pool) = 1 /\ reviewer_prefs(Pool) = sub_prefs) =>
        /\ pc # "raised"
        /\ Returned =>
              \A r \in Pool : \A s \in Subs :
                  rem_nreviews(s) > 0 => Count(curr_assignments[r], s) = 1

C15_CallerTablesKept ==
    [][/\ args' = args
       /\ \A r \in Reviewers : review(r)' = review(r)
       /\ UNCHANGED <<revs, track_prefs, all_proposals, subs_track, target_nreviews>>]_vars
C15_Witness ==
    /\ pc = "returned"
    /\ Len(assigned_log) >= 2
    /\ refs.reviewers # "arg"
    /\ \E r \in Pool : curr_assignments[r] # args.reviewers_curr[r]

Drained == clientPc = "drained"
Ceil(a, b) == (a + b - 1) \div b
\* the codes of the received records are pairwise different
DistinctCodes ==
    \A i, j \in DOMAIN received : i # j => received[i].code # received[j].code

\* C19 as stated: draining the lazy sequence delivers exactly count distinct
\* records with exactly ceil(count / page_size) requests to the list
\* endpoint, whatever the query parameters are.
C19_CeilRequests ==
    Drained =>
        /\ Len(received) = count
        /\ DistinctCodes
        /\ list_requests = Ceil(count, page_size)

\* C19 amended: the first page is always requested, so an empty collection
\* costs one request; otherwise the number is ceil(count / page_size).
C19_AtLeastOneRequest ==
    Drained =>
        /\ Len(received) = count
        /\ count = Len(Matching(query))
        /\ DistinctCodes
        /\ list_requests = Max(1, Ceil(count, page_size))
C19_Witness ==
    /\ Drained
    /\ query # ""
    /\ count < up_total
    /\ list_requests >= 2
    /\ count % page_size # 0

\* the record last received is in nested form: its track is the entity
\* behind the identifier the upstream record references
LastNested ==
    LET rec == received[Len(received)]
    IN  rec.track = TrackEntity(track_of[rec.code])
\* a step that yields the record at the head of the buffer
YieldStep == clientPc = "iter" /\ Len(received') = Len(received) + 1
Referenced == track_of[Head(page_buffer)]

\* C20 as stated: a reference to an identifier that is not cached causes
\* exactly one detail request and a put, a reference to a cached one causes
\* no request, an identifier once referenced stays cached until the cache is
\* cleared, and the record is always delivered in nested form.
C20_OneFetchPerIdentifier ==
    [][/\ YieldStep =>
            /\ get(cache, Referenced) = Miss =>
                    /\ detail_requests' = detail_requests + 1
                    /\ get(cache', Referenced) = TrackEntity(Referenced)
            /\ get(cache, Referenced) # Miss => detail_requests' = detail_requests
            /\ LastNested'
       /\ \A id \in referenced' : get(cache', id) # Miss]_vars

\* C20 amended: as stated when no upper bound is configured (the default);
\* with a bound an entry can be dropped on overflow, and the next reference
\* to its identifier fetches it again.
C20_OneFetchUnlessDropped ==
    [][/\ YieldStep =>
            /\ get(cache, Referenced) = Miss =>
                    /\ detail_requests' = detail_requests + 1
                    /\ get(cache', Referenced) = TrackEntity(Referenced)
            /\ get(cache, Referenced) # Miss => detail_requests' = detail_requests
            /\ LastNested'
       /\ soft_bound = 0 => \A id \in referenced' : get(cache', id) # Miss]_vars
C20_Witness ==
    /\ Drained
    /\ ~prepopulation
    /\ clears = 1
    /\ Len(received) >= 4

\* what the upstream holds for the query: the selected records in upstream
\* order, each in nested form
UpstreamRecords ==
    LET all == Matching(query)
    IN  [i \in 1..Len(all) |-> [code |-> all[i], track |-> TrackEntity(track_of[all[i]])]]
\* the pages the upstream serves for the query
Pages == Max(1, Ceil(Len(Matching(query)), page_size))
IsPrefix(a, b) == Len(a) <= Len(b) /\ SubSeq(b, 1, Len(a)) = a

\* C21: whichever mode the client is in, a list call returns the count of
\* the upstream content and its consumer receives the upstream records in
\* upstream order, all of them once the sequence is drained, with one
\* request per page; the modes differ only in when the pages are requested:
\* a blocking call has requested all of them when it returns, a lazy one
\* requests a page when the iteration reaches it.
C21_ModesAgree ==
    /\ clientPc \in {"iter", "drained"} =>
            /\ count = Len(UpstreamRecords)
            /\ IsPrefix(received, UpstreamRecords)
            /\ IsPrefix(received \o [i \in DOMAIN page_buffer |->
                              [code |-> page_buffer[i],
                               track |-> TrackEntity(track_of[page_buffer[i]])]],
                        UpstreamRecords)
    /\ Drained => received = UpstreamRecords /\ list_requests = Pages
    /\ blocking /\ clientPc = "iter" => list_requests = Pages /\ next_url = Null
    /\ ~blocking /\ clientPc = "iter" =>
            list_requests = Max(1, Ceil(Len(received) + Len(page_buffer), page_size))
C21_Witness ==
    /\ blocking
    /\ Drained
    /\ query # ""
    /\ page_size = 2
    /\ Len(received) = 3
    /\ list_requests = 2
    /\ detail_requests = 3
    /\ soft_bound = 0

\* the scored reviews of a user and of a proposal
ScoredBy(u) == {i \in DOMAIN revs_df : revs_df[i].user = u /\ revs_df[i].scored}
ScoredOf(c) == {i \in DOMAIN revs_df : revs_df[i].code = c /\ revs_df[i].scored}
RawSum(R) == SumOver([i \in DOMAIN revs_df |-> revs_df[i].score], R)

\* C18: the debiased score of a scored review, times the number n of scored
\* reviews of its reviewer, is n times the raw score minus the sum of those
\* reviews' scores; and the aggregate score m of a proposal is the mean of
\* the debiased scores d of its scored reviews: the differences d - m add up
\* to zero.
C18_DebiasedAndAggregate ==
    /\ revPc \in {"debiased", "joined"} =>
          \A i \in DOMAIN revs_df : revs_df[i].scored =>
              LET n == Cardinality(ScoredBy(revs_df[i].user))
                  d == revs_df[i].debiased
              IN  /\ d # NaN
                  /\ d[2] > 0
                  /\ d[1] * n = (revs_df[i].score * n - RawSum(ScoredBy(revs_df[i].user))) * d[2]
    /\ revPc = "joined" =>
          \A c \in sel_subs : ScoredOf(c) # {} =>
              LET m == avg_scores[c].avg_debiased
                  D == ProdOver([i \in DOMAIN revs_df |-> revs_df[i].debiased[2]], ScoredOf(c))
              IN  /\ m # NaN
                  /\ m[2] > 0
                  /\ SumOver([i \in DOMAIN revs_df |->
                                 (revs_df[i].debiased[1] * m[2] - m[1] * revs_df[i].debiased[2])
                                     * (D \div revs_df[i].debiased[2])],
                             ScoredOf(c)) = 0
C18_Witness ==
    /\ revPc = "joined"
    /\ \E c \in sel_subs : \E i, j \in ScoredOf(c) :
          /\ revs_df[i].user # revs_df[j].user
          /\ revs_df[i].debiased[1] # 0
          /\ \E k \in DOMAIN revs_df : k # i /\ revs_df[k].user = revs_df[i].user

\* the vote score as stated: 1 counts 0, 2 counts 1, higher votes count themselves
StatedVoteScore(rows, c) ==
    SumOver([i \in DOMAIN rows |->
                IF rows[i].score = 1 THEN 0
                ELSE IF rows[i].score = 2 THEN 1 ELSE rows[i].score],
            RowsOf(rows, c))
\* every vote above 1 counts its own value
SumAboveOne(rows, c) ==
    SumOver([i \in DOMAIN rows |-> IF rows[i].score > 1 THEN rows[i].score ELSE 0],
            RowsOf(rows, c))

\* C17 as stated: in both notebooks the vote score of a proposal is the sum
\* of its votes with 1 counted as 0, 2 as 1 and higher votes at their value.
C17_VoteScoreEverywhere ==
    /\ scorePc.sched # "start" =>
          \A c \in talk2idx : vote_score_sum(votes_df, c) = StatedVoteScore(votes_csv, c)
    /\ scorePc.sel # "start" =>
          \A c \in DOMAIN sel_votes_df :
              sel_votes_df[c].sum_gt_1 = StatedVoteScore(votes_csv, c)

\* C17 amended: the scheduling notebook sums the votes with 1 counted as 0, 2
\* as 1 and higher votes at their value; the selection notebook sums every
\* vote above 1 at its own value, so a 2 counts 2 there.
C17_VoteScorePerNotebook ==
    /\ scorePc.sched # "start" =>
          \A c \in talk2idx : vote_score_sum(votes_df, c) = StatedVoteScore(votes_csv, c)
    /\ scorePc.sel # "start" =>
          \A c \in DOMAIN sel_votes_df :
              sel_votes_df[c].sum_gt_1 = SumAboveOne(votes_csv, c)
C17_Witness ==
    /\ scorePc.sched = "pops"
    /\ scorePc.sel = "votes"
    /\ \E c \in talk2idx : \E i, j, k \in RowsOf(votes_csv, c) :
          votes_csv[i].score = 1 /\ votes_csv[j].score = 2 /\ votes_csv[k].score = 3

\* C11: from one run to the next, with reviews completed in between, no
\* reviewer's number of assigned proposals still to review grows.
C11_WorkNeverGrows ==
    (pc = "done" /\ run > 1 /\ fresh > 0) =>
        \A r \in DOMAIN new_assign_df :
            Cardinality(todo(r, new_assign_df[r])) <= prev_todo[r]

C10_UnknownTrackFails ==
    (pc # "call" /\ \E s \in Subs : subs_track[s] \notin reviewer_prefs(Pool)) =>
        (pc = "raised" /\ err.kind = "RuntimeError" /\ warned = {} /\ assigned_log = <<>>)
C10_FallbackStep ==
    (/\ pc = "for"
     /\ rem_assign[order[pos]] > 0
     /\ PrefFreeOf(order[pos]) = {}
     /\ FreeOf(order[pos]) # {})
    => LET s == order[pos]
       IN /\ s \in warned'
          /\ pc' \in {"for", "while"}
          /\ \E r \in FreeOf(s) :
                /\ \A q \in FreeOf(s) :
                       Len(curr_assignments[r]) <= Len(curr_assignments[q])
                /\ curr_assignments' = [curr_assignments EXCEPT ![r] = Append(@, s)]
Loaded == schedPc = "loaded"
SlotsOf(t) == {k \in SlotIdx : solution.vbSchedule[t][k] = 1}
TalksIn(k) == {t \in sTalks : solution.vbSchedule[t][k] = 1}

\* C5: in every solution that satisfies the constraints each talk sits in
\* exactly one (day, session, slot, room), that slot is as long as the talk
\* (so it is no slot of length 0), and no slot holds more than one talk.
C5_OneFittingSlotEach ==
    Loaded =>
        /\ \A t \in sTalks :
            /\ Cardinality(SlotsOf(t)) = 1
            /\ \A k \in SlotsOf(t) : pSlotLengths[k] = pTalkLengths[t] /\ pSlotLengths[k] # 0
        /\ \A k \in SlotIdx : Cardinality(TalksIn(k)) <= 1

\* a loaded time table with talks of both lengths and a slot that does not exist
C5_Witness ==
    /\ Loaded
    /\ \E k \in SlotIdx : pSlotLengths[k] = 0
    /\ \E t1, t2 \in sTalks : pTalkLengths[t1] # pTalkLengths[t2]

\* no feasible point has a larger objective value
Optimal(sol) ==
    LET mine == objective_terms(sol)
    IN  \A other \in Feasible : ~ObjectiveGreater(objective_terms(other), mine)
\* the talks t1 and t2 sit at the same day, session and slot position
InParallel(t1, t2) ==
    \E k1 \in SlotsOf(t1), k2 \in SlotsOf(t2) :
        k1[1] = k2[1] /\ k1[2] = k2[2] /\ k1[3] = k2[3]

\* C16: in the time table of an optimal solution no two sponsored talks
\* share day, session and slot position.
C16_SponsoredNeverParallel ==
    (Loaded /\ params.sponsored_talks # {} /\ Optimal(solution)) =>
        \A t1, t2 \in params.sponsored_talks : t1 # t2 => ~InParallel(t1, t2)

\* the five tiers of a solution, from its objective terms, each turned so
\* that larger is better
Tiers(tm) == <<tm[1], tm[2], 0 - tm[3], 0 - tm[4], 0 - tm[5]>>
\* ga is better than gb in the first tier in which they differ
LexBetter(ga, gb) ==
    \E i \in 1..5 : ga[i] > gb[i] /\ \A j \in 1..(i - 1) : ga[j] = gb[j]
\* ga is nowhere worse than gb and somewhere better
NowhereWorse(ga, gb) ==
    /\ \A i \in 1..5 : ga[i] >= gb[i]
    /\ \E i \in 1..5 : ga[i] > gb[i]

Transient(status) == status = 429 \/ status >= 500
LastStatus == status_log[Len(status_log)]

\* C22: only a request answered with 429 or 5xx is sent again, at most
\* max_retries times, and when the last attempt is answered so too the
\* request fails with UpstreamUnavailable; any other 4xx ends the request
\* at once with a client error, NotFound for a 404 of a detail endpoint,
\* and no attempt follows it.
C22_RetryPolicy ==
    /\ Len(status_log) <= max_retries + 1
    /\ \A i \in 1..(Len(status_log) - 1) : Transient(status_log[i])
    /\ fetchPc \in {"send", "backoff"} => outcome = "pending"
    /\ fetchPc = "backoff" => delay \in 1..(MaxBackoff + 1)
    /\ status_log # <<>> /\ ~Transient(LastStatus) => fetchPc = "done"
    /\ fetchPc = "done" =>
            /\ Transient(LastStatus) =>
                    /\ outcome = "UpstreamUnavailable"
                    /\ Len(status_log) = max_retries + 1
            /\ LastStatus \in 400..499 /\ LastStatus # 429 =>
                    outcome = IF LastStatus = 404 /\ endpoint = "detail"
                              THEN "NotFound" ELSE "UpstreamClientError"
            /\ LastStatus \in 200..299 => outcome = "ok"
C22_Witness ==
    /\ fetchPc = "done"
    /\ outcome = "NotFound"
    /\ Len(status_log) = 3
    /\ status_log[1] = 429
    /\ status_log[2] = 503

\* C23: when the main pass has ended and assign_proposals returned, the
\* remaining-assignments counter of every proposal is 0.
C23_AllCountersZero ==
    Returned => \A s \in Subs : rem_assign[s] = 0

\* C29: from the initialization of the counters on, the
\* remaining-assignments counter of every proposal is >= 0.
C29_CountersNeverNegative ==
    pc \in {"while", "for", "returned", "done"} => \A s \in Subs : rem_assign[s] >= 0

\* a step of the main pass that assigns the visited proposal
AssignStep == pc = "for" /\ Len(assigned_log') = Len(assigned_log) + 1
\* the reviewers the choice is made among: those not holding s that prefer
\* its track, or, when there is none, all those not holding s
Candidates(s) == IF PrefFreeOf(s) # {} THEN PrefFreeOf(s) ELSE FreeOf(s)

\* C24: each time the main pass assigns a proposal, the chosen reviewer
\* does not hold it yet, prefers its track whenever some reviewer not
\* holding it does, and has the fewest current assignments among those
\* candidates, the earliest in input order winning ties.
C24_ChosenReviewer ==
    [][AssignStep =>
          LET s == order[pos]
              r == assigned_log'[Len(assigned_log')][2]
          IN  /\ assigned_log'[Len(assigned_log')][1] = s
              /\ ~Contains(curr_assignments[r], s)
              /\ PrefFreeOf(s) # {} => subs_track[s] \in track_prefs[r]
              /\ r \in Candidates(s)
              /\ \A q \in Candidates(s) :
                     \/ Len(curr_assignments[r]) < Len(curr_assignments[q])
                     \/ Len(curr_assignments[r]) = Len(curr_assignments[q]) /\ r <= q
              /\ curr_assignments' = [curr_assignments EXCEPT ![r] = Append(@, s)]]_vars
\* a reviewer was chosen for the lighter load although an earlier reviewer
\* preferring the track did not hold the proposal
C24_Witness ==
    /\ pc = "done"
    /\ Len(assigned_log) >= 2
    /\ \E i \in DOMAIN assigned_log :
          LET s == assigned_log[i][1]
              r == assigned_log[i][2]
          IN  /\ subs_track[s] \in track_prefs[r]
              /\ \E q \in Pool : q < r /\ subs_track[s] \in track_prefs[q]
                                   /\ ~Contains(curr_assignments[q], s)

\* the pool reviewers that held s before the pass: those with a review of it
HeldBefore(s) == {r \in Pool : <<r, s>> \in DOMAIN revs}

\* C30: during and after the main pass no proposal is held by more pool
\* reviewers than max(holders before the pass, max(0, target - completed)
\* + buffer).
C30_NoMoreThanTargetPlusBuffer ==
    pc \in {"while", "for", "returned", "done"} =>
        \A s \in Subs :
            Cardinality(Holders(s) \cap Pool) <=
                Max(Cardinality(HeldBefore(s)),
                    Max(0, target_nreviews - nreviews(s)) + buffer)
\* a proposal that was held before the pass got further reviewers, up to
\* target plus buffer
C30_Witness ==
    /\ pc = "done"
    /\ \E s \in Subs :
          /\ Assigned(s)
          /\ HeldBefore(s) # {}
          /\ nreviews(s) >= 1
          /\ buffer >= 1
          /\ Cardinality(Holders(s) \cap Pool) = target_nreviews - nreviews(s) + buffer

\* C25 as stated: in every solution the model admits, vbCoOccurences of a
\* pair of the objective is 1 exactly when the two talks share day, session
\* and slot position.
C25_CoIsParallel ==
    Loaded =>
        \A p \in TalkPairs :
            solution.vbCoOccurences[p] = 1 <=> InParallel(p[1], p[2])

\* C25 amended: vbCoOccurences of a pair is 1 whenever the two talks share
\* day, session and slot position; otherwise the constraints leave it free,
\* and it is 0 in every optimal solution when the penalty of the pair is
\* positive.
C25_CoCoversParallel ==
    Loaded =>
        \A p \in TalkPairs :
            /\ InParallel(p[1], p[2]) => solution.vbCoOccurences[p] = 1
            /\ (/\ ~InParallel(p[1], p[2])
                /\ pCoOccurencesPenalty[p] > 0
                /\ solution.vbCoOccurences[p] = 1) => ~Optimal(solution)
\* an optimal solution with a pair in parallel and a penalised pair apart
C25_Witness ==
    /\ Loaded
    /\ \E p, q \in TalkPairs :
          /\ InParallel(p[1], p[2])
          /\ solution.vbCoOccurences[p] = 1
          /\ ~InParallel(q[1], q[2])
          /\ pCoOccurencesPenalty[q] > 0
          /\ solution.vbCoOccurences[q] = 0
    /\ Optimal(solution)

\* the talks of main track m, of sub track b, that x places in session sr
MainTalksIn(x, sr, m) ==
    {t \in sTalks : pTalk2MainTrack[t][m] = 1
                    /\ \E l \in sSlots : x[t][<<sr[1], sr[2], l, sr[3]>>] = 1}
SubTalksIn(x, sr, b) ==
    {t \in sTalks : pTalk2SubTrack[t][b] = 1
                    /\ \E l \in sSlots : x[t][<<sr[1], sr[2], l, sr[3]>>] = 1}
AllMain(v) == [i \in SessionRooms \X sMainTracks |-> v]
AllSub(v) == [i \in SessionRooms \X sSubTracks |-> v]

\* C26: for every placement that obeys the placement constraints, every
\* session and every main track (likewise sub track), the track constraint
\* holds with the indicator at 1, and holds with the indicator at 0 exactly
\* when no talk of the track sits in the session; so in a loaded solution
\* the indicator of a track with a talk in the session is 1.
C26_TrackIndicatorForced ==
    /\ schedPc = "built" =>
          \A x \in Schedules : \A sr \in SessionRooms :
              /\ \A m \in sMainTracks :
                    /\ Cardinality(MainTalksIn(x, sr, m)) <= NumSlots
                    /\ ctMainTrackSessionRoom(x, AllMain(1), sr, m)
                    /\ ctMainTrackSessionRoom(x, AllMain(0), sr, m)
                           <=> MainTalksIn(x, sr, m) = {}
              /\ \A b \in sSubTracks :
                    /\ Cardinality(SubTalksIn(x, sr, b)) <= NumSlots
                    /\ ctSubTrackSessionRoom(x, AllSub(1), sr, b)
                    /\ ctSubTrackSessionRoom(x, AllSub(0), sr, b)
                           <=> SubTalksIn(x, sr, b) = {}
    /\ Loaded =>
          \A sr \in SessionRooms :
              /\ \A m \in sMainTracks :
                    MainTalksIn(solution.vbSchedule, sr, m) # {}
                        => solution.vbMainTrackSessionRoom[<<sr, m>>] = 1
              /\ \A b \in sSubTracks :
                    SubTalksIn(solution.vbSchedule, sr, b) # {}
                        => solution.vbSubTrackSessionRoom[<<sr, b>>] = 1
\* a loaded solution with a session filled by talks of one main track and
\* a session without any, whose indicator is 0
C26_Witness ==
    /\ Loaded
    /\ \E sr, sq \in SessionRooms : \E m \in sMainTracks :
          /\ Cardinality(MainTalksIn(solution.vbSchedule, sr, m)) = NumSlots
          /\ solution.vbMainTrackSessionRoom[<<sr, m>>] = 1
          /\ MainTalksIn(solution.vbSchedule, sq, m) = {}
          /\ solution.vbMainTrackSessionRoom[<<sq, m>>] = 0

\* the penalty the votes alone give a pair: the bin of its entry of the
\* normalised Gram matrix, squared
VotesPenalty(p) == params.cooccurance_penalty[p] * params.cooccurance_penalty[p]

\* C27: for every pair of distinct sponsored talks the co-occurrence penalty
\* of the objective is not lower than the penalty the votes alone give.
C27_SponsoredFloor ==
    schedPc \in {"built", "loaded", "infeasible"} =>
        \A p \in TalkPairs :
            (p[1] \in params.sponsored_talks /\ p[2] \in params.sponsored_talks)
                => pCoOccurencesPenalty[p] >= VotesPenalty(p)

\* x[i] is the multiple k / n_bins of the bin width
OnEdge(i, k) == x_num[i] * n_bins = k * x_den
\* digitized[i] / n_bins is the smallest multiple of 1 / n_bins that is >= x[i]
SmallestAbove(i) ==
    /\ digitized[i] * x_den >= x_num[i] * n_bins
    /\ (digitized[i] - 1) * x_den < x_num[i] * n_bins
\* range, monotony and the two ends of the interval
QuantizeShape ==
    /\ \A i \in DOMAIN x_num : digitized[i] \in 0..n_bins
    /\ \A i, j \in DOMAIN x_num : x_num[i] <= x_num[j] => digitized[i] <= digitized[j]
    /\ \A i \in DOMAIN x_num :
          /\ x_num[i] = 0 => digitized[i] = 0
          /\ x_num[i] = x_den => digitized[i] = n_bins

\* C28 as stated: quantize(x, n_bins) is the smallest multiple of 1/n_bins
\* that is >= x, lies in {0, 1/n_bins, ..., 1}, is monotone, and maps 0 to 0
\* and 1 to 1.
C28_SmallestMultiple ==
    quantPc = "done" =>
        /\ QuantizeShape
        /\ \A i \in DOMAIN x_num : SmallestAbove(i)

\* C28 amended: as stated for every x that is not on a bin edge; for an x
\* on the edge k / n_bins the result is that edge or the next one, as the
\* rounded edge of linspace compares with x.
C28_SmallestOffEdges ==
    quantPc = "done" =>
        /\ QuantizeShape
        /\ \A i \in DOMAIN x_num :
              \/ SmallestAbove(i)
              \/ \E k \in 1..(n_bins - 1) : OnEdge(i, k) /\ digitized[i] = k + 1
\* 49 bins: one entry on an edge lands in the next bin, the other lies
\* between two edges
C28_Witness ==
    /\ quantPc = "done"
    /\ n_bins = 49
    /\ OnEdge(1, 11)
    /\ digitized[1] = 12
    /\ x_num[2] = 3
    /\ x_den = 98
    /\ digitized[2] = 2

====
